---- MODULE Spec2Model ----
(***************************************************************************)
(* A model of two MintPy command-line tools:                               *)
(*   src/mintpy/subset_hyp3.py       (the adaptive HyP3 subsetter)         *)
(*   src/mintpy/download_sarviews.py (the SARVIEWS event downloader)       *)
(* Strings are sequences of character codes, so that glob matching,        *)
(* substring tests, basename/dirname and list.sort() are computed the way  *)
(* Python computes them.                                                   *)
(***************************************************************************)
EXTENDS Integers, Sequences, FiniteSets, TLC

VARIABLES
    pc,              \* position of the running tool
    fs,              \* the input tree: the files beneath tiff_dir
    tiff_paths,      \* get_paths' result / main's tiff_paths
    hdr,             \* path -> geotransform and size of the raster stored there
    ul_utm, lr_utm,  \* the bounding box corners
    params,          \* downloader: the parsed arguments
    event_products,  \* downloader: the catalog's answer, event_data['products']
    products,        \* downloader: main's products list
    downloaded,      \* downloader: the products retrieved so far, in order
    tiff_exists,     \* subsetter: os.path.exists(tiff_dir)
    tiff_bound,      \* subsetter: whether main has assigned tiff_paths
    flags,           \* subsetter: --WGS84, and whether --lat and --lon are given
    src,             \* subsetter: input path -> the value stored in that file
    src0,            \* src as it was before the run
    out,             \* subsetter: the output tree
    out0,            \* out as it was before the run
    ifg_todo,        \* subsetter: interferogram names the setup loop has yet to visit
    idx,             \* subsetter: index in tiff_paths of the file being processed
    log,             \* subsetter: the raster operations performed, in order
    rm_failed,       \* subsetter: a shutil.rmtree raised OSError and was caught
    diag,            \* subsetter: the diagnostic printed by the input check
    raised           \* subsetter: the uncaught exception, if any

pathVars == <<fs, tiff_paths>>
boxVars == <<hdr, ul_utm, lr_utm>>
dlVars == <<params, event_products, products, downloaded>>
mainVars == <<tiff_exists, tiff_bound, flags, src, src0, out, out0, ifg_todo, idx,
              log, rm_failed, diag, raised>>
vars == <<pc, pathVars, boxVars, dlVars, mainVars>>

----------------------------------------------------------------------------
(* Text.                                                                   *)

Slash == <<47>>                                                \* "/"
TiffDir == <<105,110>>                                         \* "in"

\* a < b in Python's ordering of str (code point by code point).
StrLess(a, b) ==
    \E i \in 1..(Len(b)) :
        /\ \A k \in 1..(i-1) : k <= Len(a) /\ a[k] = b[k]
        /\ Len(a) >= i - 1
        /\ (Len(a) = i - 1 \/ a[i] < b[i])

\* Python's  sub in s .
Contains(s, sub) ==
    \E i \in 0..(Len(s) - Len(sub)) : SubSeq(s, i + 1, i + Len(sub)) = sub

EndsWith(s, suf) ==
    Len(s) >= Len(suf) /\ SubSeq(s, Len(s) - Len(suf) + 1, Len(s)) = suf

\* The positions of "/" in s.
SlashAt(s) == {i \in 1..Len(s) : s[i] = 47}

LastSlash(s) == IF SlashAt(s) = {} THEN 0
                ELSE CHOOSE i \in SlashAt(s) : \A j \in SlashAt(s) : j <= i

\* os.path.basename / os.path.dirname (posix; no trailing or doubled slash
\* occurs in the paths main builds).
Basename(s) == SubSeq(s, LastSlash(s) + 1, Len(s))

Dirname(s) == IF LastSlash(s) = 0 THEN <<>> ELSE SubSeq(s, 1, LastSlash(s) - 1)

\* os.path.join of two relative parts.
Join(a, b) == a \o Slash \o b

----------------------------------------------------------------------------
(* fnmatch and glob, as glob.glob(pattern) with recursive left False.      *)

Star == [k |-> "star", c |-> 0, cs |-> {}]

Lit(ch) == [k |-> "lit", c |-> ch, cs |-> {}]

NotIn(chars) == [k |-> "nin", c |-> 0, cs |-> chars]

Lits(s) == [i \in 1..Len(s) |-> Lit(s[i])]

\* fnmatch.fnmatch(s, p) from position i of s and j of p.
RECURSIVE MatchFrom(_, _, _, _)
MatchFrom(s, p, i, j) ==
    IF j > Len(p) THEN i > Len(s)
    ELSE IF p[j].k = "star"
         THEN \E n \in i..(Len(s) + 1) : MatchFrom(s, p, n, j + 1)
         ELSE /\ i <= Len(s)
              /\ IF p[j].k = "lit" THEN s[i] = p[j].c ELSE s[i] \notin p[j].cs
              /\ MatchFrom(s, p, i + 1, j + 1)

FnMatch(s, p) == MatchFrom(s, p, 1, 1)

\* glob skips names that start with "." unless the pattern does.
IsHidden(s) == Len(s) > 0 /\ s[1] = 46

GlobComponent(names, p) == {n \in names : ~IsHidden(n) /\ FnMatch(n, p)}

\* The five patterns of main, each f"{tiff_dir}/**/<last>".
StarStar == <<Star, Star>>

paths_cor == <<Star>> \o Lits(<<95,99,111,114,114,46,116,105,102>>)           \* *_corr.tif

paths_unw == <<Star>> \o Lits(<<95,117,110,119,95,112,104,97,115,101,46,116,105,102>>) \* *_unw_phase.tif

paths_dem == <<Star>> \o Lits(<<95,100,101,109,46,116,105,102>>)               \* *_dem.tif

paths_inc == <<Star>> \o Lits(<<95,108,118,95,116,104,101,116,97,46,116,105,102>>) \* *_lv_theta.tif

paths_meta == <<Star, NotIn({46,109,100})>> \o Lits(<<46,116,120,116>>)        \* *[!.md].txt

paths == <<paths_cor, paths_unw, paths_dem, paths_inc, paths_meta>>

\* A file of the input tree: its directories beneath tiff_dir, and its name.
RECURSIVE JoinAll(_)
JoinAll(parts) == IF Len(parts) = 1 THEN parts[1]
                  ELSE Join(parts[1], JoinAll(Tail(parts)))

PathStr(f) == JoinAll(<<TiffDir>> \o f.dirs \o <<f.name>>)

\* The directories directly beneath tiff_dir.
TopDirs(tree) == {f.dirs[1] : f \in {g \in tree : Len(g.dirs) >= 1}}

\* The entries (files and subdirectories) of the directory tiff_dir/d.
Entries(tree, d) ==
    {f.name : f \in {g \in tree : g.dirs = <<d>>}}
    \cup {f.dirs[2] : f \in {g \in tree : Len(g.dirs) >= 2 /\ g.dirs[1] = d}}

\* glob.glob(f"{tiff_dir}/**/<last>"): without recursive=True the "**"
\* component is matched like "*", against one directory level.
GlobSet(tree, last) ==
    UNION {{JoinAll(<<TiffDir, d, n>>) : n \in GlobComponent(Entries(tree, d), last)} :
               d \in GlobComponent(TopDirs(tree), StarStar)}

\* The list glob.glob returns: the matches in the directory's own order.
RECURSIVE SetToSeq(_)
SetToSeq(S) == IF S = {} THEN <<>>
               ELSE LET x == CHOOSE y \in S : TRUE IN <<x>> \o SetToSeq(S \ {x})

Glob(tree, last) == SetToSeq(GlobSet(tree, last))

RECURSIVE ConcatGlobs(_, _)
ConcatGlobs(tree, pats) ==
    IF pats = <<>> THEN <<>>
    ELSE Glob(tree, Head(pats)) \o ConcatGlobs(tree, Tail(pats))

\* The list the specification describes: each category sorted, then joined.
RECURSIVE ConcatSortedGlobs(_, _)
ConcatSortedGlobs(tree, pats) ==
    IF pats = <<>> THEN <<>>
    ELSE SortSeq(Glob(tree, Head(pats)), StrLess) \o ConcatSortedGlobs(tree, Tail(pats))

\* get_paths(paths) for a list of patterns: one sort of the joined list.
get_paths(tree, pats) == SortSeq(ConcatGlobs(tree, pats), StrLess)

\* get_paths(path) for a single pattern string (lines 134-135).
get_paths_str(tree, pat) == get_paths(tree, <<pat>>)

----------------------------------------------------------------------------
(* File discovery on its own: get_paths(paths) over a bounded input tree.  *)

MaxFiles == 2

DirChains == { <<>>, << <<65>> >>, << <<66>> >>, << <<46,104>> >>,
               << <<65>>, <<115>> >> }           \* "", A, B, .h, A/s

FileNames == {
    <<97>> \o <<95,99,111,114,114,46,116,105,102>>,                     \* a_corr.tif
    <<97>> \o <<95,117,110,119,95,112,104,97,115,101,46,116,105,102>>,  \* a_unw_phase.tif
    <<97>> \o <<95,100,101,109,46,116,105,102>>,                        \* a_dem.tif
    <<97>> \o <<95,108,118,95,116,104,101,116,97,46,116,105,102>>,      \* a_lv_theta.tif
    <<97>> \o <<95,105,110,99,95,109,97,112,46,116,105,102>>,           \* a_inc_map.tif
    <<97,46,116,120,116>>,                                              \* a.txt
    <<97,46,109,100,46,116,120,116>>,                                   \* a.md.txt
    <<99,109,100,46,116,120,116>>,                                      \* cmd.txt
    <<46,116,120,116>>,                                                 \* .txt
    <<97,46,116,105,102>>,                                              \* a.tif
    <<46,104>> \o <<95,99,111,114,114,46,116,105,102>> }                \* .h_corr.tif

FileUniverse == {[dirs |-> d, name |-> n] : d \in DirChains, n \in FileNames}

RECURSIVE SubsetsUpTo(_, _)
SubsetsUpTo(U, k) ==
    IF k = 0 THEN {{}}
    ELSE LET S == SubsetsUpTo(U, k - 1) IN S \cup {s \cup {x} : s \in S, x \in U}

NoParams == [path |-> <<>>, frame |-> <<>>, start |-> <<>>, end |-> <<>>]

BoxIdle == hdr = <<>> /\ ul_utm = <<>> /\ lr_utm = <<>>

DLIdle == /\ params = NoParams
          /\ event_products = <<>>
          /\ products = <<>>
          /\ downloaded = <<>>

Absent == [kind |-> "absent", files |-> {}]

NoTree == [root |-> "absent", hyp3 |-> "absent", mintpy |-> Absent, sub |-> <<>>]

MainIdle == /\ tiff_exists = TRUE
            /\ tiff_bound = FALSE
            /\ flags = [WGS84 |-> FALSE, subset |-> FALSE]
            /\ src = <<>> /\ src0 = <<>>
            /\ out = NoTree /\ out0 = NoTree
            /\ ifg_todo = {}
            /\ idx = 0
            /\ log = <<>>
            /\ rm_failed = FALSE
            /\ diag = ""
            /\ raised = ""

PathsInit ==
    /\ pc = "gp_call"
    /\ fs \in SubsetsUpTo(FileUniverse, MaxFiles)
    /\ tiff_paths = <<>>
    /\ BoxIdle
    /\ DLIdle
    /\ MainIdle

\* tiff_paths = get_paths(paths)
GetPathsCall ==
    /\ pc = "gp_call"
    /\ tiff_paths' = get_paths(fs, paths)
    /\ pc' = "gp_ret"
    /\ UNCHANGED <<fs, boxVars, dlVars, mainVars>>

PathsNext == GetPathsCall

SpecPaths == PathsInit /\ [][PathsNext]_vars

Range(s) == {s[i] : i \in 1..Len(s)}


\* The category (1..5, in the order of paths) a discovered path belongs to.
Category(path, tree) ==
    CHOOSE k \in 1..Len(paths) : path \in GlobSet(tree, paths[k])

\* C4 (as stated): get_paths(paths) has no duplicate and is the concatenation,
\* in the category order correlation, unwrapped phase, DEM, incidence angle,
\* metadata text, of each category's sorted list.
C4_CategoryOrder ==
    pc = "gp_ret" =>
        /\ \A i, j \in 1..Len(tiff_paths) : i # j => tiff_paths[i] # tiff_paths[j]
        /\ tiff_paths = ConcatSortedGlobs(fs, paths)

\* C4 (amended): get_paths(paths) has no duplicate, holds exactly the matches
\* of the five patterns, and is sorted as a whole, whatever the categories.
C4_GlobalSort ==
    pc = "gp_ret" =>
        /\ \A i, j \in 1..Len(tiff_paths) : i # j => tiff_paths[i] # tiff_paths[j]
        /\ Range(tiff_paths) = UNION {GlobSet(fs, paths[k]) : k \in 1..Len(paths)}
        /\ \A i \in 1..(Len(tiff_paths) - 1) : StrLess(tiff_paths[i], tiff_paths[i + 1])

\* C4 witness: a file of a later category is listed before one of an earlier.
C4_Witness ==
    /\ pc = "gp_ret"
    /\ \E i, j \in 1..Len(tiff_paths) :
          i < j /\ Category(tiff_paths[i], fs) > Category(tiff_paths[j], fs)

\* The names the specification's naming convention lists.
ConventionName(n) ==
    \/ EndsWith(n, <<95,99,111,114,114,46,116,105,102>>)                       \* _corr.tif
    \/ EndsWith(n, <<95,117,110,119,95,112,104,97,115,101,46,116,105,102>>)    \* _unw_phase.tif
    \/ EndsWith(n, <<95,100,101,109,46,116,105,102>>)                          \* _dem.tif
    \/ EndsWith(n, <<95,105,110,99,95,109,97,112,46,116,105,102>>)             \* _inc_map.tif
    \/ EndsWith(n, <<95,108,118,95,116,104,101,116,97,46,116,105,102>>)        \* _lv_theta.tif
    \/ (EndsWith(n, <<46,116,120,116>>) /\ ~EndsWith(n, <<46,109,100,46,116,120,116>>))

\* C5: a file at any depth beneath the root is discovered if and only if its
\* name ends in one of the convention's suffixes (.txt but not .md.txt).
C5_Membership ==
    pc = "gp_ret" =>
        \A f \in fs : PathStr(f) \in Range(tiff_paths) <=> ConventionName(f.name)

----------------------------------------------------------------------------
(* The adaptive bounding box: get_bounds and get_min_bounds.               *)

SetMax(S) == CHOOSE m \in S : \A x \in S : x <= m

SetMin(S) == CHOOSE m \in S : \A x \in S : m <= x

\* get_bounds(path): [minx, miny, maxx, maxy] from the geotransform
\* (x0 = gt[0], dx = gt[1], y0 = gt[3], dy = gt[5]) and the raster's size.
get_bounds(h) == <<h.x0, h.y0 + h.dy * h.ny, h.x0 + h.dx * h.nx, h.y0>>

\* np.max / np.min over one column of the bounds array.
ColMax(bounds, c) == SetMax({bounds[i][c] : i \in 1..Len(bounds)})

ColMin(bounds, c) == SetMin({bounds[i][c] : i \in 1..Len(bounds)})

\* get_min_bounds(paths): the corners (ul_utm, lr_utm) it returns.
get_min_bounds(tree, headers, pat) ==
    LET paths_unwrapped == get_paths_str(tree, pat)
        bounds == [i \in 1..Len(paths_unwrapped) |-> get_bounds(headers[paths_unwrapped[i]])]
        min_bounds == <<ColMax(bounds, 1), ColMax(bounds, 2),
                        ColMin(bounds, 3), ColMin(bounds, 4)>>
    IN  [ul |-> <<min_bounds[1], min_bounds[4]>>,
         lr |-> <<min_bounds[2], min_bounds[3]>>]

MaxOrigin == 1
MaxSize == 2

\* Raster headers: north-up rasters, pixel width 1 and pixel height -1.
Headers == [x0 : 0..MaxOrigin, y0 : 0..MaxOrigin, dx : {1}, dy : {-1},
            nx : 1..MaxSize, ny : 1..MaxSize]

UnwName == <<97,95,117,110,119,95,112,104,97,115,101,46,116,105,102>>   \* a_unw_phase.tif

UnwUniverse == {[dirs |-> << <<65>> >>, name |-> UnwName],
                [dirs |-> << <<66>> >>, name |-> UnwName]}

PathsIdle == fs = {} /\ tiff_paths = <<>>

BoundsInit ==
    /\ pc = "mb_call"
    /\ fs \in (SUBSET UnwUniverse) \ {{}}
    /\ tiff_paths = <<>>
    /\ hdr \in [{PathStr(f) : f \in fs} -> Headers]
    /\ ul_utm = <<>>
    /\ lr_utm = <<>>
    /\ DLIdle
    /\ MainIdle

\* ul_utm, lr_utm = get_min_bounds(paths_unw)
GetMinBoundsCall ==
    /\ pc = "mb_call"
    /\ LET box == get_min_bounds(fs, hdr, paths_unw)
       IN  ul_utm' = box.ul /\ lr_utm' = box.lr
    /\ pc' = "mb_ret"
    /\ UNCHANGED <<pathVars, hdr, dlVars, mainVars>>

BoundsNext == GetMinBoundsCall

SpecBounds == BoundsInit /\ [][BoundsNext]_vars

\* The extents of the unwrapped-phase rasters of the tree.
Extents == {get_bounds(hdr[q]) : q \in GlobSet(fs, paths_unw)}

\* C1: the corners are upper-left = (max of minx, min of maxy) and
\* lower-right = (min of maxx, max of miny), and the box they span lies
\* inside the footprint of every input raster.
C1_BoxCorners ==
    pc = "mb_ret" =>
        /\ ul_utm = <<SetMax({e[1] : e \in Extents}), SetMin({e[4] : e \in Extents})>>
        /\ lr_utm = <<SetMin({e[3] : e \in Extents}), SetMax({e[2] : e \in Extents})>>
        /\ (ul_utm[1] <= lr_utm[1] /\ lr_utm[2] <= ul_utm[2]) =>
              \A e \in Extents :
                  /\ e[1] <= ul_utm[1] /\ lr_utm[1] <= e[3]
                  /\ e[2] <= lr_utm[2] /\ ul_utm[2] <= e[4]

----------------------------------------------------------------------------
(* The event downloader: download_sarviews.main.                           *)

\* A JSON scalar: a number or a string.
IntV(n) == [isInt |-> TRUE, n |-> n, s |-> <<>>]

StrV(t) == [isInt |-> FALSE, n |-> 0, s |-> t]

\* The decimal digits of a natural number, as text.
RECURSIVE Decimal(_)
Decimal(n) == IF n < 10 THEN <<48 + n>>
              ELSE Decimal(n \div 10) \o <<48 + (n % 10)>>

\* Python's str(v).
Str(v) == IF v.isInt THEN Decimal(v.n) ELSE v.s

\* Time is counted in hours; dates are day numbers.
HoursPerDay == 24

\* datetime.strptime(d, '%Y-%m-%d').replace(tzinfo=utc): midnight UTC.
DateInstant(d) == d.day * HoursPerDay

\* datetime.fromisoformat(t) of a timestamp with a UTC offset: comparing two
\* aware datetimes compares their UTC instants.
FromIso(t) == t.local - t.off

\* The five filters of main, in the order of the code.
ByPath(ps, a) == SelectSeq(ps, LAMBDA p : Str(p.path) = a.path)

ByFrame(ps, a) == SelectSeq(ps, LAMBDA p : Str(p.frame) = a.frame)

ByInsar(ps, a) == SelectSeq(ps, LAMBDA p : p.job_type = "INSAR_GAMMA")

ByStartInclusive(ps, a) ==
    IF a.start # <<>>
    THEN SelectSeq(ps, LAMBDA p : FromIso(p.acquisition_date) >= DateInstant(a.start[1]))
    ELSE ps

ByStart(ps, a) ==
    IF a.start # <<>>
    THEN SelectSeq(ps, LAMBDA p : FromIso(p.acquisition_date) > DateInstant(a.start[1]))
    ELSE ps

ByEnd(ps, a) ==
    IF a.end # <<>>
    THEN SelectSeq(ps, LAMBDA p : FromIso(p.acquisition_date) < DateInstant(a.end[1]))
    ELSE ps

FilterK(k, ps, a) ==
    CASE k = 1 -> ByPath(ps, a)
      [] k = 2 -> ByFrame(ps, a)
      [] k = 3 -> ByInsar(ps, a)
      [] k = 4 -> ByStart(ps, a)
      [] k = 5 -> ByEnd(ps, a)

\* The filters applied in the order given.
RECURSIVE FilterInOrder(_, _, _)
FilterInOrder(order, ps, a) ==
    IF order = <<>> THEN ps
    ELSE FilterInOrder(Tail(order), FilterK(Head(order), ps, a), a)

\* Lines 77-101.
FilterProducts(ps, a) == FilterInOrder(<<1, 2, 3, 4, 5>>, ps, a)

MaxProducts == 2

\* The reference product, and the products that differ from it in one field.
Product0 == [path |-> IntV(14), frame |-> IntV(5), job_type |-> "INSAR_GAMMA",
             acquisition_date |-> [local |-> 30, off |-> 0]]

ProductUniverse ==
    {Product0}
    \cup {[Product0 EXCEPT !.path = v] : v \in {StrV(<<48,49,52>>)}}        \* "014"
    \cup {[Product0 EXCEPT !.frame = v] : v \in {IntV(6)}}
    \cup {[Product0 EXCEPT !.job_type = v] : v \in {"RTC_GAMMA"}}
    \cup {[Product0 EXCEPT !.acquisition_date = t] :
              t \in {[local |-> 24, off |-> 0],     \* day 1, 00:00 UTC
                     [local |-> 25, off |-> 1],     \* day 1, 01:00+01:00
                     [local |-> 48, off |-> 0]}}    \* day 2, 00:00 UTC

RECURSIVE SeqsUpTo(_, _)
SeqsUpTo(U, k) ==
    IF k = 0 THEN {<<>>}
    ELSE LET S == SeqsUpTo(U, k - 1) IN S \cup {Append(q, x) : q \in S, x \in U}

\* --start and --end are required but may be given empty; <<>> is the empty
\* string, <<d>> the date of day d.
ParamsUniverse ==
    [path : {<<49,52>>, <<48,49,52>>},              \* "14", "014"
     frame : {<<53>>},                              \* "5"
     start : {<<>>, <<[day |-> 1]>>},
     end : {<<>>, <<[day |-> 2]>>}]

DLInit ==
    /\ pc = "dl_query"
    /\ params \in ParamsUniverse
    /\ event_products \in SeqsUpTo(ProductUniverse, MaxProducts)
    /\ products = <<>>
    /\ downloaded = <<>>
    /\ PathsIdle
    /\ BoxIdle
    /\ MainIdle

\* Lines 66-75: the query, and print(products[0]), which raises IndexError
\* on an empty list.
Query ==
    /\ pc = "dl_query"
    /\ IF event_products = <<>>
       THEN pc' = "dl_raised" /\ UNCHANGED products
       ELSE pc' = "dl_filter" /\ products' = event_products
    /\ UNCHANGED <<params, event_products, downloaded, pathVars, boxVars, mainVars>>

\* Lines 77-103.
Filter ==
    /\ pc = "dl_filter"
    /\ products' = FilterProducts(products, params)
    /\ pc' = "dl_loop"
    /\ UNCHANGED <<params, event_products, downloaded, pathVars, boxVars, mainVars>>

\* Lines 105-113: one turn of the download loop.
Download ==
    /\ pc = "dl_loop"
    /\ Len(downloaded) < Len(products)
    /\ downloaded' = Append(downloaded, products[Len(downloaded) + 1])
    /\ UNCHANGED <<pc, params, event_products, products, pathVars, boxVars, mainVars>>

\* The loop is exhausted and main returns.
DLReturn ==
    /\ pc = "dl_loop"
    /\ Len(downloaded) = Len(products)
    /\ pc' = "dl_done"
    /\ UNCHANGED <<dlVars, pathVars, boxVars, mainVars>>

DLNext == Query \/ Filter \/ Download \/ DLReturn

SpecDL == DLInit /\ [][DLNext]_vars

\* What the filter is documented to keep: path, frame and type match, and the
\* acquisition lies strictly between the dates given (an empty date gives no
\* bound).
Wanted(p, a) ==
    /\ Str(p.path) = a.path
    /\ Str(p.frame) = a.frame
    /\ p.job_type = "INSAR_GAMMA"
    /\ a.start # <<>> => DateInstant(a.start[1]) < FromIso(p.acquisition_date)
    /\ a.end # <<>> => FromIso(p.acquisition_date) < DateInstant(a.end[1])

Orders == {o \in [1..5 -> 1..5] : \A i, j \in 1..5 : i # j => o[i] # o[j]}

\* C2: a product of the catalog's answer is downloaded if and only if its path,
\* frame and type match and start < acquisition_date < end, both strict; and
\* the five filters give the same list in every order of application.
C2_FilterExact ==
    /\ pc = "dl_done" =>
          \A p \in Range(event_products) : p \in Range(downloaded) <=> Wanted(p, params)
    /\ pc = "dl_loop" /\ downloaded = <<>> =>
          \A o \in Orders : FilterInOrder(o, event_products, params) = products

\* C2 witness: a run with both dates given has ended, having downloaded one
\* product and left out one acquired exactly at the start or the end instant.
C2_Witness ==
    /\ pc = "dl_done"
    /\ params.start # <<>> /\ params.end # <<>>
    /\ downloaded # <<>>
    /\ \E p \in Range(event_products) :
          /\ FromIso(p.acquisition_date) \in
                 {DateInstant(params.start[1]), DateInstant(params.end[1])}
          /\ Str(p.path) = params.path
          /\ p \notin Range(downloaded)

\* C3: when the catalog returns zero products, main raises no error and ends
\* with zero downloads.
C3_EmptyCatalogCompletes ==
    event_products = <<>> =>
        /\ pc # "dl_raised"
        /\ downloaded = <<>>

----------------------------------------------------------------------------
(* The subsetter: subset_hyp3.main and the functions it calls.             *)

OutDir == <<111,117,116>>                                       \* "out" (--output)
Hyp3 == <<104,121,112,51>>                                      \* "hyp3"
LvTheta == <<108,118,95,116,104,101,116,97>>                    \* "lv_theta"
DotTxt == <<46,116,120,116>>                                    \* ".txt"
DotTif == <<46,116,105,102>>                                    \* ".tif"

\* pi/2, with angles counted in units of pi/8.
QuarterTurn == 4

MaxTheta == 1

EmptyDir == [kind |-> "dir", files |-> {}]

RegularFile == [kind |-> "file", files |-> {}]

\* What an earlier run may have left in a directory.
StaleFile == [name |-> <<111,108,100,46,116,105,102>>,          \* old.tif
              body |-> [kind |-> "stale", val |-> 0, warped |-> FALSE]]

StaleDir == [kind |-> "dir", files |-> {StaleFile}]

TemplateFile == [name |-> <<116,101,109,112,108,97,116,101,46,116,120,116>>,  \* template.txt
                 body |-> [kind |-> "template", val |-> 0, warped |-> FALSE]]

\* The names <output>/hyp3 may hold: the interferograms A and lv_theta of the
\* input, and Z, an interferogram of an earlier run only.
OutNames == {<<65>>, LvTheta, <<90>>}

\* The input files main may find beneath tiff_dir.
MainFiles == {
    [dirs |-> << <<65>> >>, name |-> <<97,95,117,110,119,95,112,104,97,115,101,46,116,105,102>>], \* A/a_unw_phase.tif
    [dirs |-> << <<65>> >>, name |-> <<97,95,108,118,95,116,104,101,116,97,46,116,105,102>>],     \* A/a_lv_theta.tif
    [dirs |-> << <<65>> >>, name |-> <<97,46,116,120,116>>],                                      \* A/a.txt
    [dirs |-> << LvTheta >>, name |-> <<97,95,99,111,114,114,46,116,105,102>>],                   \* lv_theta/a_corr.tif
    [dirs |-> << LvTheta >>, name |-> <<97,46,116,120,116>>] }                                    \* lv_theta/a.txt

Header0 == [x0 |-> 0, y0 |-> 0, dx |-> 1, dy |-> -1, nx |-> 2, ny |-> 1]

\* The output trees a run may start from.
OutTrees ==
    {NoTree, [NoTree EXCEPT !.root = "file"]}
    \cup {[root |-> "dir", hyp3 |-> h, mintpy |-> m, sub |-> [n \in OutNames |-> Absent]] :
              h \in {"absent", "file"}, m \in {Absent, RegularFile, StaleDir}}
    \cup {[root |-> "dir", hyp3 |-> "dir", mintpy |-> m,
           sub |-> (<<65>> :> a) @@ (LvTheta :> l) @@ (<<90>> :> z)] :
              m \in {Absent, RegularFile, StaleDir},
              a \in {Absent, RegularFile, StaleDir},
              l \in {Absent, StaleDir},
              z \in {Absent, StaleDir}}

MainInit ==
    /\ pc = "start"
    /\ tiff_exists \in BOOLEAN
    /\ fs \in (IF tiff_exists THEN SUBSET MainFiles ELSE {{}})
    /\ tiff_paths = <<>>
    /\ tiff_bound = FALSE
    /\ \E v \in 0..MaxTheta : src = [q \in {PathStr(f) : f \in fs} |-> v]
    /\ src0 = src
    /\ hdr = [q \in GlobSet(fs, paths_unw) |-> Header0]
    /\ ul_utm = <<>> /\ lr_utm = <<>>
    /\ flags \in [WGS84 : BOOLEAN, subset : BOOLEAN]
    /\ out \in OutTrees
    /\ out0 = out
    /\ ifg_todo = {}
    /\ idx = 0
    /\ log = <<>>
    /\ rm_failed = FALSE
    /\ diag = ""
    /\ raised = ""
    /\ DLIdle

\* An uncaught exception ends the run.
Raise(e) == pc' = "crashed" /\ raised' = e

\* Where main goes after printing a diagnostic: the bare name  exit  is an
\* expression, not a call, so control falls through (lines 200 and 203).
AfterDiagnosticExits(d) == IF d # "" THEN "done" ELSE "setup_output"

AfterDiagnostic(d) == "setup_output"

\* Lines 194-203.
Discover ==
    /\ pc = "start"
    /\ IF tiff_exists
       THEN /\ tiff_paths' = get_paths(fs, paths)
            /\ tiff_bound' = TRUE
            /\ diag' = IF Len(tiff_paths') < 1 THEN "contains no tifs" ELSE ""
       ELSE /\ diag' = "does not exist"
            /\ UNCHANGED <<tiff_paths, tiff_bound>>
    /\ pc' = AfterDiagnostic(diag')
    /\ UNCHANGED <<fs, boxVars, dlVars, tiff_exists, flags, src, src0, out, out0,
                   ifg_todo, idx, log, rm_failed, raised>>

\* Lines 206-209.
SetupOutput ==
    /\ pc = "setup_output"
    /\ out' = IF out.root # "absent" THEN out
              ELSE [NoTree EXCEPT !.root = "dir", !.sub = [n \in OutNames |-> Absent]]
    /\ pc' = "interferograms"
    /\ UNCHANGED <<pathVars, boxVars, dlVars, tiff_exists, tiff_bound, flags, src, src0,
                   out0, ifg_todo, idx, log, rm_failed, diag, raised>>

\* Lines 212-213: reading tiff_paths raises UnboundLocalError when the input
\* check never assigned it.
Interferograms ==
    /\ pc = "interferograms"
    /\ IF tiff_bound
       THEN /\ ifg_todo' = {Basename(Dirname(tiff_paths[k])) : k \in 1..Len(tiff_paths)}
            /\ pc' = "hyp3"
            /\ UNCHANGED raised
       ELSE /\ Raise("UnboundLocalError")
            /\ UNCHANGED ifg_todo
    /\ UNCHANGED <<pathVars, boxVars, dlVars, tiff_exists, tiff_bound, flags, src, src0,
                   out, out0, idx, log, rm_failed, diag>>

\* Lines 215-218: os.mkdir beneath a regular file raises NotADirectoryError.
MakeHyp3 ==
    /\ pc = "hyp3"
    /\ IF out.root = "dir" /\ out.hyp3 # "absent"
       THEN /\ pc' = IF ifg_todo = {} THEN "box" ELSE "ifg_dirs"
            /\ UNCHANGED <<out, raised>>
       ELSE IF out.root = "file"
            THEN Raise("NotADirectoryError") /\ UNCHANGED out
            ELSE /\ out' = [out EXCEPT !.hyp3 = "dir"]
                 /\ pc' = IF ifg_todo = {} THEN "box" ELSE "ifg_dirs"
                 /\ UNCHANGED raised
    /\ UNCHANGED <<pathVars, boxVars, dlVars, tiff_exists, tiff_bound, flags, src, src0,
                   out0, ifg_todo, idx, log, rm_failed, diag>>

\* A directory guarded by  if not os.path.exists(p): os.mkdir(p)  instead.
KeepExistingDir(entry) ==
    {[entry |-> IF entry.kind = "absent" THEN EmptyDir ELSE entry,
      failed |-> FALSE, raised |-> ""]}

\* if os.path.exists(p): try: shutil.rmtree(p) except OSError: print(...)
\* followed by os.mkdir(p): the outcomes. rmtree may fail part-way (and always
\* fails on a regular file); what it failed to remove still exists, and
\* os.mkdir of an existing path raises FileExistsError.
RecreateDir(entry) ==
    IF entry.kind = "absent"
    THEN {[entry |-> EmptyDir, failed |-> FALSE, raised |-> ""]}
    ELSE IF entry.kind = "file"
    THEN {[entry |-> entry, failed |-> TRUE, raised |-> "FileExistsError"]}
    ELSE {[entry |-> EmptyDir, failed |-> FALSE, raised |-> ""]}
         \cup {[entry |-> [kind |-> "dir", files |-> left], failed |-> TRUE,
                raised |-> "FileExistsError"] : left \in SUBSET entry.files}

\* Lines 220-227: one turn of the loop over the set of interferogram names.
MakeIfgDir ==
    /\ pc = "ifg_dirs"
    /\ \E name \in ifg_todo :
          IF out.hyp3 # "dir"
          THEN /\ Raise("NotADirectoryError")
               /\ UNCHANGED <<out, rm_failed, ifg_todo>>
          ELSE \E o \in RecreateDir(out.sub[name]) :
                  /\ out' = [out EXCEPT !.sub[name] = o.entry]
                  /\ rm_failed' = (rm_failed \/ o.failed)
                  /\ IF o.raised # ""
                     THEN Raise(o.raised) /\ UNCHANGED ifg_todo
                     ELSE /\ ifg_todo' = ifg_todo \ {name}
                          /\ pc' = IF ifg_todo' = {} THEN "box" ELSE "ifg_dirs"
                          /\ UNCHANGED raised
    /\ UNCHANGED <<pathVars, boxVars, dlVars, tiff_exists, tiff_bound, flags, src, src0,
                   out0, idx, log, diag>>

\* --lon W E and --lat S N when given.
SubsetLon == <<20, 21>>
SubsetLat == <<10, 11>>

\* lonLat_to_utm: pyproj's transform, kept as a fixed one-to-one map.
lonLat_to_utm(lon, lat) == <<1000 * lon, 1000 * lat>>

\* Lines 230-242: get_paths(paths_unw)[0] raises IndexError on an empty list.
ParseBox ==
    /\ pc = "box"
    /\ IF get_paths_str(fs, paths_unw) = <<>>
       THEN Raise("IndexError") /\ UNCHANGED <<ul_utm, lr_utm, idx>>
       ELSE /\ IF ~flags.subset
               THEN LET box == get_min_bounds(fs, hdr, paths_unw)
                    IN  ul_utm' = box.ul /\ lr_utm' = box.lr
               ELSE /\ ul_utm' = lonLat_to_utm(SubsetLon[1], SubsetLat[2])
                    /\ lr_utm' = lonLat_to_utm(SubsetLon[2], SubsetLat[1])
            /\ idx' = 1
            /\ pc' = "clip"
            /\ UNCHANGED raised
    /\ UNCHANGED <<pathVars, hdr, dlVars, tiff_exists, tiff_bound, flags, src, src0,
                   out, out0, ifg_todo, log, rm_failed, diag>>

\* Lines 246-247.
Destination(file) ==
    JoinAll(<<OutDir, Hyp3, Basename(Dirname(file)), Basename(file)>>)

\* The output tree with the file  name  of hyp3/d (re)written with body b.
WriteOut(tree, d, name, b) ==
    [tree EXCEPT !.sub[d].files =
        {f \in @ : f.name # name} \cup {[name |-> name, body |-> b]}]

\* The body of the file  name  of hyp3/d.
BodyOf(tree, d, name) ==
    (CHOOSE f \in tree.sub[d].files : f.name = name).body

\* Lines 249-250 and move_and_clip: a copy for a text file, a clip for a raster.
Clip ==
    /\ pc = "clip"
    /\ LET file == tiff_paths[idx]
           d == Basename(Dirname(file))
           n == Basename(file)
       IN  IF Contains(file, DotTxt)
           THEN /\ out' = WriteOut(out, d, n, [kind |-> "copy", val |-> src[file], warped |-> FALSE])
                /\ log' = Append(log, [op |-> "copy", file |-> file, target |-> Destination(file)])
           ELSE IF Contains(file, DotTif)
           THEN /\ out' = WriteOut(out, d, n, [kind |-> "clip", val |-> src[file], warped |-> FALSE])
                /\ log' = Append(log, [op |-> "clip", file |-> file, target |-> Destination(file)])
           ELSE UNCHANGED <<out, log>>
    /\ pc' = "correct"
    /\ UNCHANGED <<pathVars, boxVars, dlVars, tiff_exists, tiff_bound, flags, src, src0,
                   out0, ifg_todo, idx, rm_failed, diag, raised>>

\* The path main hands to correct_inc (line 253).
CorrectTargetIsDestination(file, destination) == destination

CorrectTarget(file, destination) == file

\* correct_inc's arithmetic (line 92).
correct_inc(theta) == QuarterTurn - theta

\* Lines 252-253 and correct_inc: gdal.Open of a file that is no raster
\* returns None, and the next line raises AttributeError; otherwise the file
\* at the path given is rewritten with pi/2 - theta.
CorrectInc ==
    /\ pc = "correct"
    /\ LET file == tiff_paths[idx]
           d == Basename(Dirname(file))
           n == Basename(file)
           target == CorrectTarget(file, Destination(file))
       IN  IF ~Contains(Destination(file), LvTheta)
           THEN pc' = "warp" /\ UNCHANGED <<src, out, log, raised>>
           ELSE IF ~EndsWith(target, DotTif)
           THEN Raise("AttributeError") /\ UNCHANGED <<src, out, log>>
           ELSE /\ IF target = file
                   THEN /\ src' = [src EXCEPT ![file] = correct_inc(@)]
                        /\ UNCHANGED out
                   ELSE /\ out' = WriteOut(out, d, n,
                               [BodyOf(out, d, n) EXCEPT !.val = correct_inc(@)])
                        /\ UNCHANGED src
                /\ log' = Append(log, [op |-> "correct", file |-> file, target |-> target])
                /\ pc' = "warp"
                /\ UNCHANGED raised
    /\ UNCHANGED <<pathVars, boxVars, dlVars, tiff_exists, tiff_bound, flags, src0,
                   out0, ifg_todo, idx, rm_failed, diag>>

\* Lines 255-256 and to_WGS84, then the next turn of the loop.
Warp ==
    /\ pc = "warp"
    /\ LET file == tiff_paths[idx]
           d == Basename(Dirname(file))
           n == Basename(file)
       IN  IF flags.WGS84 /\ Contains(Destination(file), DotTif)
           THEN /\ out' = WriteOut(out, d, n, [BodyOf(out, d, n) EXCEPT !.warped = TRUE])
                /\ log' = Append(log, [op |-> "warp", file |-> file, target |-> Destination(file)])
           ELSE UNCHANGED <<out, log>>
    /\ idx' = idx + 1
    /\ pc' = IF idx' > Len(tiff_paths) THEN "template" ELSE "clip"
    /\ UNCHANGED <<pathVars, boxVars, dlVars, tiff_exists, tiff_bound, flags, src, src0,
                   out0, ifg_todo, rm_failed, diag, raised>>

\* Lines 259-260 and build_template.
BuildTemplate ==
    /\ pc = "template"
    /\ \E o \in RecreateDir(out.mintpy) :
          /\ rm_failed' = (rm_failed \/ o.failed)
          /\ IF o.raised # ""
             THEN /\ Raise(o.raised)
                  /\ out' = [out EXCEPT !.mintpy = o.entry]
             ELSE /\ out' = [out EXCEPT !.mintpy = [kind |-> "dir", files |-> {TemplateFile}]]
                  /\ pc' = "done"
                  /\ UNCHANGED raised
    /\ UNCHANGED <<pathVars, boxVars, dlVars, tiff_exists, tiff_bound, flags, src, src0,
                   out0, ifg_todo, idx, log, diag>>

MainNext ==
    \/ Discover
    \/ SetupOutput
    \/ Interferograms
    \/ MakeHyp3
    \/ MakeIfgDir
    \/ ParseBox
    \/ Clip
    \/ CorrectInc
    \/ Warp
    \/ BuildTemplate

Spec == MainInit /\ [][MainNext]_vars

----------------------------------------------------------------------------
(* The claims about the subsetter.                                         *)

\* The distinct interferogram identifiers of the current input.
CurrentIds == {Basename(Dirname(tiff_paths[k])) : k \in 1..Len(tiff_paths)}

\* What <output>/hyp3 held under the name n before the run.
Prior(n) == IF n \in DOMAIN out0.sub THEN out0.sub[n] ELSE Absent

C7_InputUnchanged ==
    pc = "done" => src = src0

\* C8: a removal that fails with an OS error is caught and the run goes on: it
\* does not end in an uncaught exception.
C8_RemovalFailureNonFatal ==
    rm_failed => raised = ""

\* An incidence-angle file, by its name.
IsIncidence(file) == FnMatch(Basename(file), paths_inc)

\* The raster operations of one turn of the processing loop, when the
\* correction is applied under the condition corrected.
Steps(file, corrected) ==
    <<[op |-> IF Contains(file, DotTxt) THEN "copy" ELSE "clip",
       file |-> file, target |-> Destination(file)]>>
    \o (IF corrected THEN <<[op |-> "correct", file |-> file, target |-> file]>> ELSE <<>>)
    \o (IF flags.WGS84 /\ Contains(Destination(file), DotTif)
        THEN <<[op |-> "warp", file |-> file, target |-> Destination(file)]>> ELSE <<>>)

RECURSIVE StepsUpTo(_, _)
StepsUpTo(k, byName) ==
    IF k = 0 THEN <<>>
    ELSE StepsUpTo(k - 1, byName)
         \o Steps(tiff_paths[k], IF byName THEN IsIncidence(tiff_paths[k])
                                 ELSE Contains(Destination(tiff_paths[k]), LvTheta))

IsPrefix(a, b) == Len(a) <= Len(b) /\ SubSeq(b, 1, Len(a)) = a

\* The turns of the processing loop that have ended.
TurnsDone == IF idx = 0 THEN 0 ELSE idx - 1

\* The operations so far are those of the finished turns, then a prefix of the
\* current turn's; every finished incidence-angle file has its source
\* corrected and its destination holding the clipped, uncorrected value.
LoopOrder(byName) ==
    /\ IsPrefix(StepsUpTo(TurnsDone, byName), log)
    /\ IF idx >= 1 /\ idx <= Len(tiff_paths)
       THEN IsPrefix(log, StepsUpTo(idx, byName))
       ELSE log = StepsUpTo(TurnsDone, byName)
    /\ \A k \in 1..TurnsDone :
          LET file == tiff_paths[k] IN
          IsIncidence(file) =>
             /\ BodyOf(out, Basename(Dirname(file)), Basename(file)).val = src0[file]
             /\ src[file] = correct_inc(src0[file])

NoInput == pc # "start" /\ (~tiff_exists \/ tiff_paths = <<>>)

\* C10: with the input missing or empty, main prints the diagnostic and goes
\* on: it sets up the output directory (and, the input being empty, the hyp3
\* container), then fails with an unrelated uncaught error; it never reaches
\* the processing loop or the template and never ends normally.
C10_NoInputFallsThrough ==
    NoInput =>
        /\ diag = IF tiff_exists THEN "contains no tifs" ELSE "does not exist"
        /\ pc \in {"setup_output", "interferograms", "hyp3", "box", "crashed"}
        /\ pc # "crashed" => ENABLED MainNext
        /\ pc = "crashed" =>
              /\ out.root # "absent"
              /\ raised = IF ~tiff_exists THEN "UnboundLocalError"
                          ELSE IF out.root = "file" THEN "NotADirectoryError"
                          ELSE "IndexError"
              /\ tiff_exists /\ out.root = "dir" => out.hyp3 # "absent"

\* C10 witness: an empty input and no output directory: the run has created the
\* output directory and the hyp3 container and then failed.
C10_Witness ==
    /\ NoInput
    /\ tiff_exists
    /\ out0.root = "absent"
    /\ out.root = "dir" /\ out.hyp3 = "dir"
    /\ pc = "crashed"

====
